---- MODULE Spec2Model ----
(***************************************************************************)
(* Model of the multiplayer session server of src/server.ts: the player    *)
(* registry (players, nextPlayerId), the connection handler, the message   *)
(* router with its per-type handlers, the close handler and the two        *)
(* broadcast primitives.                                                   *)
(*                                                                         *)
(* A JavaScript object is a TLA+ function whose DOMAIN is the set of its   *)
(* defined properties: a property that is undefined is absent from the     *)
(* DOMAIN, which is also what JSON.stringify puts on the wire.             *)
(***************************************************************************)
EXTENDS Integers, Sequences, FiniteSets, TLC

\* Connections the server accepts over its lifetime.
MaxConns == 3
\* Inbound messages the server handles over its lifetime.
MaxMsgs == 2

\* health / maxHealth of a new record (server.ts:60-61)
InitialHealth == 100
\* damage used when the payload carries none (server.ts:199)
DefaultDamage == 10
\* getRandomColor() returns the fixed 0xcccccc (server.ts:355)
PlayerColor == 13421772

Conns == 1..MaxConns

VARIABLES
    players,       \* the Map ws -> player record (server.ts:40)
    nextPlayerId,  \* server.ts:43
    clients,       \* wss.clients: the sockets the server holds
    readyState,    \* ws.readyState of every socket
    sent,          \* per socket, the frames written to it by the last handler run
    last,          \* the event the last handler run handled
    before,        \* history: the registry as the last handler run found it
    assigned,      \* history: the ids given out, in accept order
    nMsgs          \* history: inbound messages handled so far

vars == <<players, nextPlayerId, clients, readyState, sent, last, before, assigned, nMsgs>>

\* One client (src/client/src/Game.tsx), which the server actions leave alone.
VARIABLES
    playerIdRef,   \* playerIdRef.current (Game.tsx:2700), 0 for null
    playersRef,    \* playersRef.current: the Map id -> Player (Game.tsx:2701)
    playerName,    \* the playerName state (Game.tsx:2689)
    socketState,   \* socketRef.current.readyState
    modelRef,      \* whether modelRef.current, the local model, is loaded
    outbox,        \* the frames the client sent in its last step
    clientLast,    \* the event the client's last step handled
    playersRefWas, \* history: playersRef as the last step found it
    playerIdWas,   \* history: playerIdRef as the last step found it
    isRespawning,  \* the isRespawning state (Game.tsx:2690)
    nEvents,       \* history: inbound messages the client has handled
    assignedId     \* history: the id of the init handled on the current socket, or 0

clientVars == <<playerIdRef, playersRef, playerName, socketState, modelRef, outbox,
                clientLast, playersRefWas, playerIdWas, isRespawning, nEvents,
                assignedId>>

------------------------------------------------------------------------------
\* JavaScript objects

EmptyObj == [f \in {} |-> 0]

Has(obj, f) == f \in DOMAIN obj

\* obj.f = v
SetField(obj, f, v) == [g \in DOMAIN obj \cup {f} |-> IF g = f THEN v ELSE obj[g]]

\* obj.f = undefined
DelField(obj, f) == [g \in DOMAIN obj \ {f} |-> obj[g]]

\* obj.f = src.f, where src.f may be undefined
CopyField(obj, f, src) ==
    IF Has(src, f) THEN SetField(obj, f, src[f]) ELSE DelField(obj, f)

\* the object literal { f: src.f, ... } for f in fs, as JSON.stringify writes it
Pick(src, fs) == [g \in DOMAIN src \cap fs |-> src[g]]

\* `Player ${playerId}`
PlayerName(id) == "Player " \o ToString(id)

\* n || d for a number n that may be undefined
OrDefault(obj, f, d) == IF Has(obj, f) /\ obj[f] # 0 THEN obj[f] ELSE d

\* Math.max(a, b)
Max(a, b) == IF a >= b THEN a ELSE b

------------------------------------------------------------------------------
\* Values the clients put in their payloads

P0 == [x |-> 0, y |-> 0, z |-> 0]
P1 == [x |-> 1, y |-> 0, z |-> 2]
D1 == [x |-> 0, y |-> 0, z |-> 1]


\* what the periodic emitter sends with a health field added, and a payload
\* that omits position and animation
PositionPayloads ==
    { [position |-> P1, rotation |-> 1, animation |-> "run", name |-> "neo", health |-> 5],
      [rotation |-> 1] }

\* partial updates: one field, a respawn, and falsy values with foreign fields
PlayerUpdatePayloads ==
    { [animation |-> "jump"],
      [health |-> InitialHealth, name |-> "neo"],
      [name |-> "", animation |-> "", rotation |-> 0, kills |-> 5, deaths |-> 5] }

\* an id the server never assigns within MaxConns connections
NoSuchId == MaxConns + 1

\* target ids: the first two ids the server assigns, and one it never assigns
TargetIds == {1, 2, NoSuchId}

\* damage absent or above a full health on every target; zero and negative
\* damage on the first
DamagePayloads ==
    [targetId : TargetIds] \cup [targetId : TargetIds, damage : {150}]
        \cup [targetId : {1}, damage : {0, -50}]

\* the two case labels of the damage handler
DamageMessages ==
    ({"directDamage"} \X DamagePayloads)
        \cup ({"damagePlayer"} \X [targetId : {2}, damage : {150}])

FireballPayloads ==
    { [position |-> P1, direction |-> D1],
      [position |-> P1, direction |-> D1, targetPoint |-> P0, speed |-> 25, damage |-> 20] }

UpdateNamePayloads == [id : {1, 2}, name : {"neo"}]

------------------------------------------------------------------------------
\* Frames

Frame(type, data) == [type |-> type, data |-> data]

NoFrames == [c \in Conns |-> <<>>]

\* ws.send(frame) on one socket
Send(out, c, frame) == [out EXCEPT ![c] = Append(@, frame)]

\* a broadcastToOthers that forgets client !== sender
broadcastToOthers_Echo(cl, rs, out, sender, frame) ==
    [c \in Conns |->
        IF c \in cl /\ rs[c] = "OPEN"
        THEN Append(out[c], frame)
        ELSE out[c]]

\* broadcastToOthers(wss, sender, message), server.ts:319-335
broadcastToOthers(cl, rs, out, sender, frame) ==
    [c \in Conns |->
        IF c \in cl /\ c # sender /\ rs[c] = "OPEN"
        THEN Append(out[c], frame)
        ELSE out[c]]

\* a broadcastToAll whose loop ends at the first client that is not open
broadcastToAll_StopsAtClosed(cl, rs, out, frame) ==
    [c \in Conns |->
        IF c \in cl /\ \A d \in cl : d <= c => rs[d] = "OPEN"
        THEN Append(out[c], frame)
        ELSE out[c]]

\* broadcastToAll(wss, message), server.ts:338-350
broadcastToAll(cl, rs, out, frame) ==
    [c \in Conns |->
        IF c \in cl /\ rs[c] = "OPEN"
        THEN Append(out[c], frame)
        ELSE out[c]]

------------------------------------------------------------------------------
\* The registry

\* the record players.set(ws, {...}) stores, server.ts:54-65
NewPlayer(id) ==
    [id |-> id, color |-> PlayerColor, position |-> P0, rotation |-> 0,
     animation |-> "idle", health |-> InitialHealth, maxHealth |-> InitialHealth,
     kills |-> 0, deaths |-> 0, name |-> PlayerName(id)]

\* players.set(ws, rec)
MapSet(map, c, rec) == [d \in DOMAIN map \cup {c} |-> IF d = c THEN rec ELSE map[d]]

\* a delete that leaves the entry in the Map
MapDelete_KeepsEntry(map, c) == map

\* players.delete(ws)
MapDelete(map, c) == [d \in DOMAIN map \ {c} |-> map[d]]

\* the keys of a Map in iteration order: insertion order, which is accept order
RECURSIVE KeysFrom(_, _)
KeysFrom(map, c) ==
    IF c > MaxConns THEN <<>>
    ELSE IF c \in DOMAIN map THEN <<c>> \o KeysFrom(map, c + 1)
    ELSE KeysFrom(map, c + 1)

\* Array.from(players.values())
Values(map) == LET ks == KeysFrom(map, 1) IN [i \in 1..Len(ks) |-> map[ks[i]]]

\* a lookup loop that assigns targetPlayer before testing the id, and so
\* ends on the last record when no id matches
FindById_LastSeen(map, id) ==
    LET ks   == KeysFrom(map, 1)
        hits == {i \in 1..Len(ks) : map[ks[i]].id = id}
    IN IF hits # {} THEN ks[CHOOSE i \in hits : \A j \in hits : i <= j]
       ELSE IF ks = <<>> THEN 0 ELSE ks[Len(ks)]

\* the for..of loop that finds the target, server.ts:190-195: the socket of
\* the first record with that id, or 0
FindById(map, id) ==
    LET ks   == KeysFrom(map, 1)
        hits == {i \in 1..Len(ks) : map[ks[i]].id = id}
    IN IF hits = {} THEN 0 ELSE ks[CHOOSE i \in hits : \A j \in hits : i <= j]

Event(kind, c, data) == [kind |-> kind, conn |-> c, data |-> data]

Handled(map, out) == [players |-> map, out |-> out]

------------------------------------------------------------------------------
\* The message handlers, server.ts:89-291.  Each gives the registry and the
\* frames written once the handler has run for a message of socket c with
\* payload data (the message's data object).

\* an updateName handler that renames the record that has the payload's id,
\* whichever connection owns it
HandleUpdateName_ById(c, data) ==
    LET t == FindById(players, data.id)
    IN IF c \in DOMAIN players /\ t # 0
       THEN Handled([players EXCEPT ![t] = CopyField(@, "name", data)],
                    broadcastToAll(clients, readyState, NoFrames,
                                   Frame("nameUpdate", Pick(data, {"id", "name"}))))
       ELSE Handled(players, NoFrames)

\* an updateName handler without the playerData.id === playerId test
HandleUpdateName_NoGuard(c, data) ==
    IF c \in DOMAIN players
    THEN Handled([players EXCEPT ![c] = CopyField(@, "name", data)],
                 broadcastToAll(clients, readyState, NoFrames,
                                Frame("nameUpdate", Pick(data, {"id", "name"}))))
    ELSE Handled(players, NoFrames)

\* case "updateName", server.ts:96-123
HandleUpdateName(c, data) ==
    IF c \in DOMAIN players /\ Has(data, "id") /\ players[c].id = data.id
    THEN Handled([players EXCEPT ![c] = CopyField(@, "name", data)],
                 broadcastToAll(clients, readyState, NoFrames,
                                Frame("nameUpdate", Pick(data, {"id", "name"}))))
    ELSE Handled(players, NoFrames)

\* a position handler that also takes the payload's health
MovePlayer_WithHealth(rec, data) ==
    LET r == CopyField(CopyField(CopyField(rec, "position", data), "rotation", data),
                       "animation", data)
    IN IF Has(data, "health") THEN SetField(r, "health", data.health) ELSE r

\* the three assignments of case "position", server.ts:130-132
MovePlayer(rec, data) ==
    CopyField(CopyField(CopyField(rec, "position", data), "rotation", data),
              "animation", data)

\* a position handler that relays the payload it received
HandlePosition_RelaysPayload(c, data) ==
    IF c \in DOMAIN players
    THEN LET posPlayer == MovePlayer(players[c], data)
         IN Handled([players EXCEPT ![c] = posPlayer],
                    broadcastToOthers(clients, readyState, NoFrames, c,
                                      Frame("playerUpdate",
                                            SetField(data, "id", posPlayer.id))))
    ELSE Handled(players, NoFrames)

\* case "position", server.ts:125-147
HandlePosition(c, data) ==
    IF c \in DOMAIN players
    THEN LET posPlayer == MovePlayer(players[c], data)
         IN Handled([players EXCEPT ![c] = posPlayer],
                    broadcastToOthers(clients, readyState, NoFrames, c,
                                      Frame("playerUpdate", posPlayer)))
    ELSE Handled(players, NoFrames)

\* if (data.data.f) for an object or a string: defined and not ""
Truthy(data, f) == Has(data, f) /\ data[f] # ""

\* a playerUpdate handler that assigns rotation without its guard
UpdatePlayer_Unguarded(rec, data) ==
    LET r1 == IF Has(data, "position") THEN SetField(rec, "position", data.position) ELSE rec
        r2 == CopyField(r1, "rotation", data)
        r3 == IF Truthy(data, "animation") THEN SetField(r2, "animation", data.animation) ELSE r2
        r4 == IF Has(data, "health") THEN SetField(r3, "health", data.health) ELSE r3
        r5 == IF Truthy(data, "name") THEN SetField(r4, "name", data.name) ELSE r4
    IN r5

\* a playerUpdate handler that validates health: a record at health 0 stays
\* there
UpdatePlayer_NoRevive(rec, data) ==
    LET r1 == IF Has(data, "position") THEN SetField(rec, "position", data.position) ELSE rec
        r2 == IF Has(data, "rotation") THEN SetField(r1, "rotation", data.rotation) ELSE r1
        r3 == IF Truthy(data, "animation") THEN SetField(r2, "animation", data.animation) ELSE r2
        r4 == IF Has(data, "health") /\ rec.health > 0
              THEN SetField(r3, "health", data.health) ELSE r3
    IN IF Truthy(data, "name") THEN SetField(r4, "name", data.name) ELSE r4

\* the five guarded assignments of case "playerUpdate", server.ts:153-167
UpdatePlayer(rec, data) ==
    LET r1 == IF Has(data, "position") THEN SetField(rec, "position", data.position) ELSE rec
        r2 == IF Has(data, "rotation") THEN SetField(r1, "rotation", data.rotation) ELSE r1
        r3 == IF Truthy(data, "animation") THEN SetField(r2, "animation", data.animation) ELSE r2
        r4 == IF Has(data, "health") THEN SetField(r3, "health", data.health) ELSE r3
        r5 == IF Truthy(data, "name") THEN SetField(r4, "name", data.name) ELSE r4
    IN r5

\* case "playerUpdate", server.ts:148-179
HandlePlayerUpdate(c, data) ==
    IF c \in DOMAIN players
    THEN LET updatePlayer == UpdatePlayer(players[c], data)
         IN Handled([players EXCEPT ![c] = updatePlayer],
                    broadcastToOthers(clients, readyState, NoFrames, c,
                                      Frame("playerUpdate", updatePlayer)))
    ELSE Handled(players, NoFrames)

\* const damage = data.data.damage || 10, server.ts:199
DamageAmount(data) == OrDefault(data, "damage", DefaultDamage)

\* the subtraction without Math.max
DamagedHealth_NoClamp(health, damage) == health - damage

\* Math.max(0, targetPlayer.health - damage), server.ts:201
DamagedHealth(health, damage) == Max(0, health - damage)

\* if (targetPlayer.health <= 0), server.ts:231
IsDefeated(target) == target.health <= 0

\* a defeat that credits no kill when the sender defeats its own record
CountDefeat_NoSelfCredit(map, c, t) ==
    LET m1 == IF c = t THEN map
              ELSE [map EXCEPT ![c] = SetField(@, "kills", OrDefault(@, "kills", 0) + 1)]
    IN [m1 EXCEPT ![t] = SetField(@, "deaths", OrDefault(@, "deaths", 0) + 1)]

\* a defeat that credits the kill to the victim's record
CountDefeat_CreditsVictim(map, c, t) ==
    LET m1 == [map EXCEPT ![t] = SetField(@, "kills", OrDefault(@, "kills", 0) + 1)]
    IN [m1 EXCEPT ![t] = SetField(@, "deaths", OrDefault(@, "deaths", 0) + 1)]

\* the counters of a defeat, server.ts:233-234: the killer's, then the victim's
CountDefeat(map, c, t) ==
    LET m1 == [map EXCEPT ![c] = SetField(@, "kills", OrDefault(@, "kills", 0) + 1)]
    IN [m1 EXCEPT ![t] = SetField(@, "deaths", OrDefault(@, "deaths", 0) + 1)]

\* a damage handler that sends the health update to the others only
HandleDamage_UpdateToOthers(c, data) ==
    IF c \notin DOMAIN players THEN Handled(players, NoFrames)
    ELSE LET t == IF Has(data, "targetId") THEN FindById(players, data.targetId) ELSE 0
         IN IF t = 0 THEN Handled(players, NoFrames)
            ELSE LET m1   == [players EXCEPT
                                ![t].health = DamagedHealth(@, DamageAmount(data))]
                     out1 == broadcastToOthers(clients, readyState, NoFrames, c,
                                               Frame("playerUpdate", m1[t]))
                 IN IF IsDefeated(m1[t])
                    THEN LET m2 == CountDefeat(m1, c, t)
                         IN Handled(m2,
                                broadcastToAll(clients, readyState, out1,
                                    Frame("playerKill",
                                          [killerId     |-> m2[c].id,
                                           killerKills  |-> m2[c].kills,
                                           victimId     |-> m2[t].id,
                                           victimDeaths |-> m2[t].deaths])))
                    ELSE Handled(m1, out1)

\* case "damagePlayer" / "directDamage", server.ts:180-258
HandleDamage(c, data) ==
    IF c \notin DOMAIN players THEN Handled(players, NoFrames)
    ELSE LET t == IF Has(data, "targetId") THEN FindById(players, data.targetId) ELSE 0
         IN IF t = 0 THEN Handled(players, NoFrames)
            ELSE LET m1   == [players EXCEPT
                                ![t].health = DamagedHealth(@, DamageAmount(data))]
                     out1 == broadcastToAll(clients, readyState, NoFrames,
                                            Frame("playerUpdate", m1[t]))
                 IN IF IsDefeated(m1[t])
                    THEN LET m2 == CountDefeat(m1, c, t)
                         IN Handled(m2,
                                broadcastToAll(clients, readyState, out1,
                                    Frame("playerKill",
                                          [killerId     |-> m2[c].id,
                                           killerKills  |-> m2[c].kills,
                                           victimId     |-> m2[t].id,
                                           victimDeaths |-> m2[t].deaths])))
                    ELSE Handled(m1, out1)

\* a relay that spreads the payload and injects playerId, adding no color
FireballData_SpreadPayload(rec, data) == SetField(data, "playerId", rec.id)

\* the object literal relayed by case "fireball", server.ts:274-280
FireballData(rec, data) ==
    LET d1 == CopyField([playerId |-> rec.id], "position", data)
        d2 == CopyField(d1, "direction", data)
        d3 == CopyField(d2, "color", rec)
    IN CopyField(d3, "damage", data)

\* case "fireball", server.ts:259-284
HandleFireball(c, data) ==
    IF c \in DOMAIN players
    THEN Handled(players,
                 broadcastToOthers(clients, readyState, NoFrames, c,
                                   Frame("fireball", FireballData(players[c], data))))
    ELSE Handled(players, NoFrames)

------------------------------------------------------------------------------
\* The state machine

\* the refs and state of a Game component that has just mounted and called
\* connectToServer, Game.tsx:2689-2701 and 6638-6639
ClientStart ==
    /\ playerIdRef = 0
    /\ playersRef = EmptyObj
    /\ playerName = ""
    /\ socketState = "CONNECTING"
    /\ modelRef = FALSE
    /\ outbox = <<>>
    /\ clientLast = [kind |-> "start", data |-> EmptyObj]
    /\ playersRefWas = EmptyObj
    /\ playerIdWas = 0
    /\ isRespawning = FALSE
    /\ nEvents = 0
    /\ assignedId = 0

Init ==
    /\ ClientStart
    /\ players = EmptyObj
    /\ nextPlayerId = 1
    /\ clients = {}
    /\ readyState = [c \in Conns |-> "NONE"]
    /\ sent = NoFrames
    /\ last = Event("start", 0, EmptyObj)
    /\ before = EmptyObj
    /\ assigned = <<>>
    /\ nMsgs = 0

\* an id taken from the size of the registry instead of the counter
AllocatedId_FromSize == Cardinality(DOMAIN players) + 1

\* const playerId = nextPlayerId++, server.ts:48: the value playerId gets
AllocatedId == nextPlayerId

\* a roster that leaves the new player out
InitData_FilterSelf(playerId, map) ==
    [id |-> playerId,
     players |-> SelectSeq(Values(map), LAMBDA p : p.id # playerId)]

\* the data of the init frame, server.ts:71-74
InitData(playerId, map) == [id |-> playerId, players |-> Values(map)]

\* a connection handler that announces the new player to every open socket,
\* the new one included, before it sends init
Connection_AnnouncesFirst ==
    /\ Len(assigned) < MaxConns
    /\ LET ws       == Len(assigned) + 1
           playerId == AllocatedId
           map      == MapSet(players, ws, NewPlayer(playerId))
           cl       == clients \cup {ws}
           rs       == [readyState EXCEPT ![ws] = "OPEN"]
           out      == broadcastToAll(cl, rs, NoFrames, Frame("playerJoined", map[ws]))
       IN /\ nextPlayerId' = nextPlayerId + 1
          /\ players' = map
          /\ clients' = cl
          /\ readyState' = rs
          /\ sent' = Send(out, ws, Frame("init", InitData(playerId, map)))
          /\ last' = Event("connection", ws, EmptyObj)
          /\ assigned' = Append(assigned, playerId)
    /\ before' = players
    /\ UNCHANGED nMsgs
    /\ UNCHANGED clientVars

\* wss.on("connection"), server.ts:46-86: the next socket is accepted
Connection ==
    /\ Len(assigned) < MaxConns
    /\ LET ws       == Len(assigned) + 1
           playerId == AllocatedId
           map      == MapSet(players, ws, NewPlayer(playerId))
           cl       == clients \cup {ws}
           rs       == [readyState EXCEPT ![ws] = "OPEN"]
           out      == Send(NoFrames, ws, Frame("init", InitData(playerId, map)))
       IN /\ nextPlayerId' = nextPlayerId + 1
          /\ players' = map
          /\ clients' = cl
          /\ readyState' = rs
          /\ sent' = broadcastToOthers(cl, rs, out, ws, Frame("playerJoined", map[ws]))
          /\ last' = Event("connection", ws, EmptyObj)
          /\ assigned' = Append(assigned, playerId)
    /\ before' = players
    /\ UNCHANGED nMsgs
    /\ UNCHANGED clientVars

\* the transport starts closing (a close frame, terminate()): no handler runs
BeginClose(c) ==
    /\ readyState[c] = "OPEN"
    /\ readyState' = [readyState EXCEPT ![c] = "CLOSING"]
    /\ sent' = NoFrames
    /\ last' = Event("closing", c, EmptyObj)
    /\ before' = players
    /\ UNCHANGED <<players, nextPlayerId, clients, assigned, nMsgs>>
    /\ UNCHANGED clientVars

\* a close handler that forgets players.delete(ws)
CloseHandler_NoDelete(map, cl, rs, c) ==
    IF c \in DOMAIN map
    THEN Handled(map,
                 broadcastToAll(cl, rs, NoFrames,
                                Frame("playerLeft", Pick(map[c], {"id", "name"}))))
    ELSE Handled(map, NoFrames)

\* players.delete(ws) after the playerLeft broadcast, server.ts:296-313
CloseHandler(map, cl, rs, c) ==
    IF c \in DOMAIN map
    THEN Handled(MapDelete(map, c),
                 broadcastToAll(cl, rs, NoFrames,
                                Frame("playerLeft", Pick(map[c], {"id", "name"}))))
    ELSE Handled(map, NoFrames)

\* ws.on("close"), server.ts:294-314: the socket is CLOSED when the event fires
Close(c) ==
    /\ readyState[c] \in {"OPEN", "CLOSING"}
    /\ LET cl == clients \ {c}
           rs == [readyState EXCEPT ![c] = "CLOSED"]
           r  == CloseHandler(players, cl, rs, c)
       IN /\ clients' = cl
          /\ readyState' = rs
          /\ players' = r.players
          /\ sent' = r.out
    /\ last' = Event("close", c, EmptyObj)
    /\ before' = players
    /\ UNCHANGED <<nextPlayerId, assigned, nMsgs>>
    /\ UNCHANGED clientVars

\* ws.on("message") up to the switch, server.ts:89-95: one message of an open
\* socket is handled to completion
Receive(c, kind, data, r) ==
    /\ readyState[c] = "OPEN"
    /\ nMsgs < MaxMsgs
    /\ nMsgs' = nMsgs + 1
    /\ players' = r.players
    /\ sent' = r.out
    /\ last' = Event(kind, c, data)
    /\ before' = players
    /\ UNCHANGED <<nextPlayerId, clients, readyState, assigned>>
    /\ UNCHANGED clientVars

UpdateName(c) ==
    \E data \in UpdateNamePayloads :
        Receive(c, "updateName", data, HandleUpdateName(c, data))

Position(c) ==
    \E data \in PositionPayloads :
        Receive(c, "position", data, HandlePosition(c, data))

PlayerUpdate(c) ==
    \E data \in PlayerUpdatePayloads :
        Receive(c, "playerUpdate", data, HandlePlayerUpdate(c, data))

Damage(c) ==
    \E msg \in DamageMessages :
        Receive(c, msg[1], msg[2], HandleDamage(c, msg[2]))

Fireball(c) ==
    \E data \in FireballPayloads :
        Receive(c, "fireball", data, HandleFireball(c, data))

\* a catch that drops the sender's record with the message
Dropped_Unregisters(c) ==
    \E kind \in {"unknown", "malformed"} :
        Receive(c, kind, EmptyObj, Handled(MapDelete(players, c), NoFrames))

\* default: and catch, server.ts:285-290: a type outside the catalogue, or a
\* frame JSON.parse rejects
Dropped(c) ==
    \E kind \in {"unknown", "malformed"} :
        Receive(c, kind, EmptyObj, Handled(players, NoFrames))

Next ==
    \/ Connection
    \/ \E c \in Conns : BeginClose(c)
    \/ \E c \in Conns : Close(c)
    \/ \E c \in Conns : UpdateName(c)
    \/ \E c \in Conns : Position(c)
    \/ \E c \in Conns : PlayerUpdate(c)
    \/ \E c \in Conns : Damage(c)
    \/ \E c \in Conns : Fireball(c)
    \/ \E c \in Conns : Dropped(c)

Spec == Init /\ [][Next]_vars

------------------------------------------------------------------------------
\* The client of src/client/src/Game.tsx: handleServerMessage and the
\* functions it calls, the position emitter, the name repair timer and the
\* socket callbacks. The client handles whatever frame its socket delivers:
\* nothing in it makes init the first one.

\* Inbound messages the client handles over its lifetime.
MaxEvents == 3

\* Game.tsx:2624
MAX_PLAYER_HEALTH == 100

\* config.fireball.damage, Game.tsx:8806
FireballDamage == 20

\* the player ids that inbound frames name
ClientIds == {1, 2}

\* obj.f || d for a string property
StrOr(obj, f, d) == IF Truthy(obj, f) THEN obj[f] ELSE d

\* a record as the server serialises it, with the given health
ServerRecord(id, h) == SetField(NewPlayer(id), "health", h)

\* init payloads: the id and the roster, which holds the new record
\* (server.ts:68-76)
InitPayloads ==
    {[id |-> i, players |-> << ServerRecord(i, h) >>] : i \in ClientIds, h \in {100, 40}}
        \cup {[id |-> i, players |-> << NewPlayer(1), NewPlayer(2) >>] : i \in ClientIds}

\* playerJoined payloads: a new record (server.ts:79-86)
PlayerJoinedPayloads == {NewPlayer(i) : i \in ClientIds}

\* playerUpdate payloads: a record after a move, after damage, after a
\* position message that carried no position (server.ts:130-144, 222-228),
\* and one that carries only id and position
ClientUpdatePayloads ==
    UNION {{ [NewPlayer(i) EXCEPT !.position = P1, !.animation = "walk"],
             ServerRecord(i, 40),
             ServerRecord(i, 0),
             DelField(NewPlayer(i), "position"),
             [id |-> i, position |-> P1] } : i \in ClientIds}

\* nameUpdate and playerLeft payloads (server.ts:111-117, 299-305)
NameUpdatePayloads == [id : ClientIds, name : {"trinity"}]

PlayerLeftPayloads == {[id |-> i, name |-> PlayerName(i)] : i \in ClientIds}

\* what a handler leaves behind: playerIdRef, playersRef and the frames sent
Step(id, map, out) == [id |-> id, map |-> map, out |-> out]

\* the Player literal of Game.tsx:4713-4727, 4814-4828 and 5113-5127; model
\* and loading tell whether the avatar model is loaded, or being loaded
PlayerFrom(data) ==
    LET p == [id        |-> data.id,
              position  |-> data.position,
              health    |-> OrDefault(data, "health", MAX_PLAYER_HEALTH),
              maxHealth |-> OrDefault(data, "maxHealth", MAX_PLAYER_HEALTH),
              kills     |-> OrDefault(data, "kills", 0),
              deaths    |-> OrDefault(data, "deaths", 0),
              name      |-> StrOr(data, "name", PlayerName(data.id)),
              model     |-> FALSE,
              loading   |-> FALSE]
    IN CopyField(CopyField(p, "rotation", data), "animation", data)

\* the Player literal of the playerUpdate case, Game.tsx:4842-4856
LazyPlayer(data) ==
    SetField(PlayerFrom(data), "animation", StrOr(data, "animation", "idle"))

\* playerName, showNameMenu and isRespawning as handleServerMessage, the socket
\* callbacks and the timers read them: these closures are created once, by
\* effects with an empty dependency list (Game.tsx:6733, 7426), and keep the
\* values of the first render (Game.tsx:2688-2690)
mountedPlayerName == ""

mountedShowNameMenu == TRUE

mountedIsRespawning == FALSE

\* the updateName frame the client sends
NameFrame(id, name) == Frame("updateName", [id |-> id, name |-> name])

\* a createOtherPlayer that takes the id of every record it is called for as
\* the local one
createOtherPlayer_AdoptsEvery(cs, pid) ==
    LET isLocal == mountedPlayerName # ""
        rec     == IF isLocal THEN SetField(cs.map[pid], "name", mountedPlayerName)
                   ELSE cs.map[pid]
        out1    == IF isLocal /\ socketState = "OPEN"
                   THEN Append(cs.out, NameFrame(pid, mountedPlayerName)) ELSE cs.out
    IN Step(pid, MapSet(cs.map, pid, SetField(rec, "loading", TRUE)), out1)

\* createOtherPlayer, Game.tsx:5350-5470, for the record just stored under pid
createOtherPlayer(cs, pid) ==
    LET id1     == IF cs.id = 0 THEN pid
                   ELSE IF cs.id \notin DOMAIN cs.map /\ Cardinality(DOMAIN cs.map) = 1
                        THEN pid
                        ELSE cs.id
        isLocal == pid = id1 /\ mountedPlayerName # ""
        rec     == IF isLocal THEN SetField(cs.map[pid], "name", mountedPlayerName)
                   ELSE cs.map[pid]
        out1    == IF isLocal /\ socketState = "OPEN"
                   THEN Append(cs.out, NameFrame(pid, mountedPlayerName)) ELSE cs.out
    IN Step(id1, MapSet(cs.map, pid, SetField(rec, "loading", TRUE)), out1)

\* data.data.players.forEach of the init case, Game.tsx:4709-4730
RECURSIVE AddOthers(_, _, _, _)
AddOthers(cs, roster, i, newPlayerId) ==
    IF i > Len(roster) THEN cs
    ELSE LET p == roster[i]
         IN IF p.id = newPlayerId \/ p.id \in DOMAIN cs.map
            THEN AddOthers(cs, roster, i + 1, newPlayerId)
            ELSE AddOthers(createOtherPlayer(
                               Step(cs.id, MapSet(cs.map, p.id, PlayerFrom(p)), cs.out),
                               p.id),
                           roster, i + 1, newPlayerId)

\* case "init", Game.tsx:4587-4731
onInit(data) ==
    LET newPlayerId == data.id
        hits        == {i \in 1..Len(data.players) : data.players[i].id = newPlayerId}
        lp          == data.players[CHOOSE i \in hits : \A j \in hits : i <= j]
        localPlayer == IF mountedPlayerName # ""
                       THEN SetField(PlayerFrom(lp), "name", mountedPlayerName)
                       ELSE PlayerFrom(lp)
        found       == hits # {}
        map1        == IF found THEN MapSet(playersRef, newPlayerId, localPlayer)
                       ELSE playersRef
        out1        == IF found /\ mountedPlayerName # "" /\ socketState = "OPEN"
                       THEN << NameFrame(newPlayerId, mountedPlayerName) >> ELSE <<>>
    IN AddOthers(Step(newPlayerId, map1, out1), data.players, 1, newPlayerId)

\* case "nameUpdate", Game.tsx:4733-4802
onNameUpdate(data) ==
    IF data.id \in DOMAIN playersRef
    THEN Step(playerIdRef, [playersRef EXCEPT ![data.id].name = data.name], <<>>)
    ELSE Step(playerIdRef, playersRef, <<>>)

\* case "playerJoined", Game.tsx:4804-4831
onPlayerJoined(data) ==
    IF data.id \in DOMAIN playersRef \/ data.id = playerIdRef
    THEN Step(playerIdRef, playersRef, <<>>)
    ELSE createOtherPlayer(
             Step(playerIdRef, MapSet(playersRef, data.id, PlayerFrom(data)), <<>>),
             data.id)

\* handlePlayerDefeat, Game.tsx:5824-5830: the fields of the record it changes
handlePlayerDefeat(p) ==
    IF p.model THEN [p EXCEPT !.deaths = @ + 1] ELSE p

\* the assignments of updateOtherPlayer to a tracked record,
\* Game.tsx:5134-5280
MergeUpdate(p, data) ==
    LET p1 == IF Has(data, "position") THEN SetField(p, "position", data.position) ELSE p
        p2 == IF Has(data, "rotation") /\ p.model
              THEN SetField(p1, "rotation", data.rotation) ELSE p1
        p3 == IF Has(data, "health")
              THEN LET h == SetField(p2, "health", data.health)
                   IN IF data.health <= 0 /\ p.health > 0 THEN handlePlayerDefeat(h) ELSE h
              ELSE p2
        p4 == IF Has(data, "kills") THEN SetField(p3, "kills", data.kills) ELSE p3
        p5 == IF Has(data, "deaths") THEN SetField(p4, "deaths", data.deaths) ELSE p4
        p6 == IF Truthy(data, "name") THEN SetField(p5, "name", data.name) ELSE p5
    IN IF Truthy(data, "animation") THEN SetField(p6, "animation", data.animation) ELSE p6

\* updateOtherPlayer, Game.tsx:5095-5298; reading data.position.x of a
\* payload without position throws, and the catch of onmessage drops the
\* message
updateOtherPlayer(cs, data) ==
    IF data.id = cs.id THEN cs
    ELSE IF data.id \notin DOMAIN cs.map
         THEN IF Has(data, "position")
              THEN createOtherPlayer(
                       Step(cs.id, MapSet(cs.map, data.id, PlayerFrom(data)), cs.out),
                       data.id)
              ELSE cs
         ELSE Step(cs.id, [cs.map EXCEPT ![data.id] = MergeUpdate(@, data)], cs.out)

\* case "playerUpdate", Game.tsx:4833-4894, with the same throw at 4845
onPlayerUpdate(data) ==
    LET cs == Step(playerIdRef, playersRef, <<>>)
    IN IF data.id \notin DOMAIN playersRef
       THEN IF Has(data, "position")
            THEN createOtherPlayer(
                     Step(playerIdRef, MapSet(playersRef, data.id, LazyPlayer(data)), <<>>),
                     data.id)
            ELSE cs
       ELSE updateOtherPlayer(cs, data)

\* playerKill payloads (server.ts:242-253): player 1 defeats player 2, and
\* player 2 defeats itself
PlayerKillPayloads ==
    {[killerId |-> k, killerKills |-> 1, victimId |-> 2, victimDeaths |-> 1] :
        k \in ClientIds}

\* case "playerKill", Game.tsx:4987-5024
onPlayerKill(data) ==
    LET m1 == IF data.killerId \in DOMAIN playersRef
              THEN [playersRef EXCEPT ![data.killerId].kills =
                                          OrDefault(data, "killerKills", 0)]
              ELSE playersRef
    IN Step(playerIdRef,
            IF data.victimId \in DOMAIN m1
            THEN [m1 EXCEPT ![data.victimId].deaths = OrDefault(data, "victimDeaths", 0)]
            ELSE m1,
            <<>>)

\* removeOtherPlayer, Game.tsx:5301-5307
removeOtherPlayer(map, playerId) ==
    IF playerId \in DOMAIN map /\ map[playerId].model
    THEN MapDelete(map, playerId) ELSE map

\* case "playerLeft", Game.tsx:4896-4899
onPlayerLeft(data) ==
    Step(playerIdRef, removeOtherPlayer(playersRef, data.id), <<>>)

\* a position emitter that adds the local record's health to the payload
sendPositionUpdate_WithHealth(position, rotation, animation) ==
    IF socketState # "OPEN" \/ ~modelRef \/ playerIdRef = 0 THEN <<>>
    ELSE LET tracked == playerIdRef \in DOMAIN playersRef
             data    == [id |-> playerIdRef, position |-> position,
                         rotation |-> rotation, animation |-> animation,
                         name |-> IF tracked THEN playersRef[playerIdRef].name
                                  ELSE IF mountedPlayerName # "" THEN mountedPlayerName
                                  ELSE PlayerName(playerIdRef)]
         IN << Frame("position",
                     IF tracked
                     THEN SetField(data, "health", playersRef[playerIdRef].health)
                     ELSE data) >>

\* a position emitter without the test of the socket's readyState
sendPositionUpdate_AnySocketState(position, rotation, animation) ==
    IF ~modelRef \/ playerIdRef = 0 THEN <<>>
    ELSE << Frame("position",
                  [id |-> playerIdRef, position |-> position,
                   rotation |-> rotation, animation |-> animation,
                   name |-> IF playerIdRef \in DOMAIN playersRef
                            THEN playersRef[playerIdRef].name
                            ELSE IF mountedPlayerName # "" THEN mountedPlayerName
                            ELSE PlayerName(playerIdRef)]) >>

\* sendPositionUpdate, Game.tsx:5310-5347: the frames it sends for the local
\* model's position, rotation and animation
sendPositionUpdate(position, rotation, animation) ==
    IF socketState # "OPEN" \/ ~modelRef \/ playerIdRef = 0 THEN <<>>
    ELSE << Frame("position",
                  [id |-> playerIdRef, position |-> position,
                   rotation |-> rotation, animation |-> animation,
                   name |-> IF playerIdRef \in DOMAIN playersRef
                            THEN playersRef[playerIdRef].name
                            ELSE IF mountedPlayerName # "" THEN mountedPlayerName
                            ELSE PlayerName(playerIdRef)]) >>

\* fixPlayerName, Game.tsx:7244-7390
fixPlayerName(name) ==
    LET send(id) == IF socketState = "OPEN" THEN << NameFrame(id, name) >> ELSE <<>>
    IN IF playerIdRef = 0 \/ name = ""
       THEN Step(playerIdRef, playersRef, <<>>)
       ELSE IF playerIdRef \in DOMAIN playersRef
       THEN Step(playerIdRef, [playersRef EXCEPT ![playerIdRef].name = name], <<>>)
       ELSE IF Cardinality(DOMAIN playersRef) = 1
       THEN LET onlyPlayerId == CHOOSE id \in DOMAIN playersRef : TRUE
            IN Step(onlyPlayerId,
                    [playersRef EXCEPT ![onlyPlayerId].name = name],
                    send(onlyPlayerId))
       ELSE Step(playerIdRef, playersRef, send(playerIdRef))

\* one client step: its effect and the history it leaves
ClientStep(kind, data, cs) ==
    /\ playerIdRef' = cs.id
    /\ playersRef' = cs.map
    /\ outbox' = cs.out
    /\ clientLast' = [kind |-> kind, data |-> data]
    /\ playersRefWas' = playersRef
    /\ playerIdWas' = playerIdRef
    /\ assignedId' = IF kind = "init" THEN data.id
                     ELSE IF kind = "close" THEN 0
                     ELSE assignedId
    /\ UNCHANGED vars

\* socket.onmessage, Game.tsx:6661-6668: one frame of the open socket is
\* parsed and handled to completion
ClientReceive(kind, data, cs) ==
    /\ socketState = "OPEN"
    /\ nEvents < MaxEvents
    /\ nEvents' = nEvents + 1
    /\ ClientStep(kind, data, cs)
    /\ UNCHANGED <<playerName, socketState, modelRef>>

InitMsg ==
    \E data \in InitPayloads :
        ClientReceive("init", data, onInit(data)) /\ UNCHANGED isRespawning

NameUpdateMsg ==
    \E data \in NameUpdatePayloads :
        ClientReceive("nameUpdate", data, onNameUpdate(data)) /\ UNCHANGED isRespawning

PlayerJoinedMsg ==
    \E data \in PlayerJoinedPayloads :
        ClientReceive("playerJoined", data, onPlayerJoined(data)) /\ UNCHANGED isRespawning

PlayerUpdateMsg ==
    \E data \in ClientUpdatePayloads :
        ClientReceive("playerUpdate", data, onPlayerUpdate(data)) /\ UNCHANGED isRespawning

PlayerLeftMsg ==
    \E data \in PlayerLeftPayloads :
        ClientReceive("playerLeft", data, onPlayerLeft(data)) /\ UNCHANGED isRespawning

PlayerKillMsg ==
    \E data \in PlayerKillPayloads :
        ClientReceive("playerKill", data, onPlayerKill(data)) /\ UNCHANGED isRespawning

\* case "fireball" for a fireball that reaches a player, Game.tsx:4901-4985:
\* the collision branch of updateFireballs (Game.tsx:6320-6396) damages the
\* record and reports directDamage; the finished listener of
\* handlePlayerDefeat (Game.tsx:5869-5895) sets isRespawning for the local
\* player
FireballMsg ==
    \E ownerId \in ClientIds, id \in DOMAIN playersRef :
        LET player == playersRef[id]
            hit    == [player EXCEPT !.health = Max(0, @ - FireballDamage)]
            after  == IF hit.health <= 0 THEN handlePlayerDefeat(hit) ELSE hit
        IN /\ player.model
           /\ id # ownerId
           /\ player.health > 0
           /\ isRespawning' = (isRespawning \/ (hit.health <= 0 /\ id = playerIdRef))
           /\ ClientReceive("fireball", [playerId |-> ownerId],
                  Step(playerIdRef, [playersRef EXCEPT ![id] = after],
                       << Frame("directDamage",
                                [targetId |-> id, damage |-> FireballDamage,
                                 newHealth |-> hit.health, position |-> player.position]) >>))

\* the loader callback of createOtherPlayer, Game.tsx:5418-5432
ModelLoaded ==
    \E id \in DOMAIN playersRef :
        /\ playersRef[id].loading
        /\ ClientStep("modelLoaded", [id |-> id],
                      Step(playerIdRef,
                           [playersRef EXCEPT ![id].model = TRUE, ![id].loading = FALSE],
                           <<>>))
        /\ UNCHANGED <<isRespawning, playerName, socketState, modelRef, nEvents>>

\* the loader callback of the local model, Game.tsx:2926
LocalModelLoaded ==
    /\ ~modelRef
    /\ modelRef' = TRUE
    /\ ClientStep("localModelLoaded", EmptyObj, Step(playerIdRef, playersRef, <<>>))
    /\ UNCHANGED <<isRespawning, playerName, socketState, nEvents>>

\* the name input, Game.tsx:8312
SetPlayerName ==
    /\ playerName = ""
    /\ playerName' = "neo"
    /\ ClientStep("setPlayerName", EmptyObj, Step(playerIdRef, playersRef, <<>>))
    /\ UNCHANGED <<isRespawning, socketState, modelRef, nEvents>>

\* the button of the name menu while isRespawning, Game.tsx:8325-8405
RespawnClick ==
    /\ isRespawning
    /\ playerName # ""
    /\ isRespawning' = FALSE
    /\ ClientStep("respawn", EmptyObj,
                  Step(playerIdRef,
                       IF playerIdRef \in DOMAIN playersRef
                       THEN [playersRef EXCEPT
                                 ![playerIdRef].name = playerName,
                                 ![playerIdRef].health = playersRef[playerIdRef].maxHealth]
                       ELSE playersRef,
                       <<>>))
    /\ UNCHANGED <<playerName, socketState, modelRef, nEvents>>

\* socket.onopen, Game.tsx:6641-6659
SocketOpen ==
    /\ socketState = "CONNECTING"
    /\ socketState' = "OPEN"
    /\ ClientStep("open", EmptyObj,
                  Step(playerIdRef, playersRef,
                       IF mountedPlayerName # "" /\ playerIdRef # 0
                       THEN << NameFrame(playerIdRef, mountedPlayerName) >> ELSE <<>>))
    /\ UNCHANGED <<isRespawning, playerName, modelRef, nEvents>>

\* socket.onclose, Game.tsx:6670-6673
SocketClose ==
    /\ socketState = "OPEN"
    /\ socketState' = "CLOSED"
    /\ ClientStep("close", EmptyObj, Step(playerIdRef, playersRef, <<>>))
    /\ UNCHANGED <<isRespawning, playerName, modelRef, nEvents>>

\* the reconnect timer of onclose runs connectToServer, Game.tsx:6629-6639
Reconnect ==
    /\ socketState = "CLOSED"
    /\ socketState' = "CONNECTING"
    /\ ClientStep("reconnect", EmptyObj, Step(playerIdRef, playersRef, <<>>))
    /\ UNCHANGED <<isRespawning, playerName, modelRef, nEvents>>

\* a tick of syncInterval, Game.tsx:6693-6697
EmitterTick ==
    \E position \in {P0, P1}, animation \in {"idle", "walk"} :
        /\ ClientStep("emitterTick", EmptyObj,
                      Step(playerIdRef, playersRef,
                           IF socketState = "OPEN"
                           THEN sendPositionUpdate(position, 0, animation)
                           ELSE <<>>))
        /\ UNCHANGED <<isRespawning, playerName, socketState, modelRef, nEvents>>

\* a frame of the animation loop in which no fireball reaches a player,
\* Game.tsx:6579-6625: it sends the position at Game.tsx:6617
AnimateFrame ==
    \E position \in {P0, P1}, animation \in {"idle", "walk"} :
        /\ ClientStep("animate", EmptyObj,
                      Step(playerIdRef, playersRef,
                           sendPositionUpdate(position, 0, animation)))
        /\ UNCHANGED <<isRespawning, playerName, socketState, modelRef, nEvents>>

\* a tick of nameCheckInterval, Game.tsx:7416-7421
NameCheckTick ==
    /\ ClientStep("nameCheck", EmptyObj,
                  IF /\ playerIdRef # 0
                     /\ mountedPlayerName # ""
                     /\ ~mountedShowNameMenu
                     /\ ~mountedIsRespawning
                  THEN fixPlayerName(mountedPlayerName)
                  ELSE Step(playerIdRef, playersRef, <<>>))
    /\ UNCHANGED <<isRespawning, playerName, socketState, modelRef, nEvents>>

ClientNext ==
    \/ InitMsg
    \/ NameUpdateMsg
    \/ PlayerJoinedMsg
    \/ PlayerUpdateMsg
    \/ PlayerLeftMsg
    \/ PlayerKillMsg
    \/ FireballMsg
    \/ ModelLoaded
    \/ LocalModelLoaded
    \/ SetPlayerName
    \/ RespawnClick
    \/ SocketOpen
    \/ SocketClose
    \/ Reconnect
    \/ EmitterTick
    \/ AnimateFrame
    \/ NameCheckTick

ClientSpec == Init /\ [][ClientNext]_clientVars

------------------------------------------------------------------------------
\* The server after a defeat: connections 1 and 2 are open and connection 1
\* has just sent directDamage {targetId: 2, damage: 150}. Spec reaches this
\* state with its third step; the message budget starts again from here.

Victim == [NewPlayer(2) EXCEPT !.health = 0]

AfterDefeat ==
    /\ players = MapSet(MapSet(EmptyObj, 1, [NewPlayer(1) EXCEPT !.kills = 1]),
                        2, [Victim EXCEPT !.deaths = 1])
    /\ nextPlayerId = 3
    /\ clients = {1, 2}
    /\ readyState = [c \in Conns |-> IF c \in {1, 2} THEN "OPEN" ELSE "NONE"]
    /\ sent = [c \in Conns |->
                 IF c \in {1, 2}
                 THEN << Frame("playerUpdate", Victim),
                         Frame("playerKill", [killerId |-> 1, killerKills |-> 1,
                                              victimId |-> 2, victimDeaths |-> 1]) >>
                 ELSE <<>>]
    /\ last = Event("directDamage", 1, [targetId |-> 2, damage |-> 150])
    /\ before = MapSet(MapSet(EmptyObj, 1, NewPlayer(1)), 2, NewPlayer(2))
    /\ assigned = << 1, 2 >>

RespawnInit == ClientStart /\ AfterDefeat /\ nMsgs = 0

RespawnSpec == RespawnInit /\ [][Next]_vars

------------------------------------------------------------------------------
\* Vocabulary of the properties

IsOpen(c) == c \in clients /\ readyState[c] = "OPEN"

IsDamage == last.kind \in {"directDamage", "damagePlayer"}

\* the sockets whose record, as the handler found it, has the id the damage names
Targets == IF IsDamage /\ last.conn \in DOMAIN before
           THEN {c \in DOMAIN before : before[c].id = last.data.targetId}
           ELSE {}

\* the frames of one type written to socket c by the last handler run
FramesOf(c, type) == SelectSeq(sent[c], LAMBDA f : f.type = type)

\* field f is the same, or absent, in both records
SameField(r1, r2, f) ==
    /\ (f \in DOMAIN r1) = (f \in DOMAIN r2)
    /\ f \in DOMAIN r1 => r1[f] = r2[f]

------------------------------------------------------------------------------
\* C1. Health isolation: handling a position message, whatever its payload
\* holds (a health field included), leaves the stored health of the sender
\* and of every other record as it was.
C1_HealthIsolation ==
    last.kind = "position" =>
        /\ DOMAIN players = DOMAIN before
        /\ \A c \in DOMAIN before : SameField(players[c], before[c], "health")

\* a position message that carries a health other than the stored one, from
\* a sender whose health had been damaged, with another record registered
C1_Witness ==
    /\ last.kind = "position"
    /\ Has(last.data, "health")
    /\ last.data.health # before[last.conn].health
    /\ before[last.conn].health < InitialHealth
    /\ Has(players[last.conn], "position") /\ players[last.conn].position = P1
    /\ Cardinality(DOMAIN players) >= 2

\* C2. Single defeat trigger: a damage message against a target whose stored
\* health is already 0 or less increments no deaths and no kills counter and
\* sends no playerKill.
C2_SingleDefeatTrigger ==
    \A t \in Targets :
        before[t].health <= 0 =>
            /\ \A c \in DOMAIN before :
                  /\ c \in DOMAIN players
                  /\ players[c].kills = before[c].kills
                  /\ players[c].deaths = before[c].deaths
            /\ \A c \in Conns : FramesOf(c, "playerKill") = <<>>

\* C3. Identity uniqueness: the k-th accepted connection gets id k, no two
\* records share an id, every record keeps the id it was given, and the id of
\* a closed connection belongs to no record.
C3_IdentityUniqueness ==
    /\ \A k \in 1..Len(assigned) : assigned[k] = k
    /\ \A c \in DOMAIN players : c <= Len(assigned) /\ players[c].id = assigned[c]
    /\ \A c, d \in DOMAIN players : c # d => players[c].id # players[d].id
    /\ \A c \in 1..Len(assigned) :
          readyState[c] = "CLOSED" =>
              \A d \in DOMAIN players : players[d].id # assigned[c]

\* a connection accepted after another one has closed, with all MaxConns used
C3_Witness ==
    /\ last.kind = "connection"
    /\ Len(assigned) = MaxConns
    /\ \E c \in Conns : readyState[c] = "CLOSED"
    /\ Cardinality(DOMAIN players) >= 2

\* C4. Damage clamp: a damage message whose damage exceeds the target's
\* stored health leaves the target's stored health at exactly 0.
C4_DamageClamp ==
    \A t \in Targets :
        (Has(last.data, "damage") /\ last.data.damage > before[t].health) =>
            players[t].health = 0

\* damage 150 against a target with a positive health
C4_Witness ==
    \E t \in Targets :
        /\ Has(last.data, "damage")
        /\ last.data.damage > before[t].health
        /\ before[t].health > 0
        /\ players[t].health = 0

\* C5. Damage never heals: after a damage message, whatever damage it
\* carries, the target's health is within 0..maxHealth and is not above the
\* health stored before.
C5_DamageNeverHeals ==
    \A t \in Targets :
        /\ 0 <= players[t].health
        /\ players[t].health <= players[t].maxHealth
        /\ players[t].health <= before[t].health

\* C6. Defeat accounting: a damage message of sender S that takes target T's
\* health from above 0 to 0 or less adds exactly 1 to S's kills and to T's
\* deaths and sends every open connection exactly one playerKill carrying
\* S's id, S's new kills, T's id and T's new deaths; when the resulting
\* health is still above 0 no counter changes and no playerKill is sent.
C6_DefeatAccounting ==
    \A t \in Targets :
        LET s == last.conn IN
        /\ (before[t].health > 0 /\ players[t].health <= 0) =>
              /\ players[s].kills = before[s].kills + 1
              /\ players[t].deaths = before[t].deaths + 1
              /\ \A c \in Conns :
                    IsOpen(c) =>
                        FramesOf(c, "playerKill") =
                            << [type |-> "playerKill",
                                data |-> [killerId     |-> before[s].id,
                                          killerKills  |-> before[s].kills + 1,
                                          victimId     |-> before[t].id,
                                          victimDeaths |-> before[t].deaths + 1]] >>
        /\ players[t].health > 0 =>
              /\ \A c \in DOMAIN before :
                    /\ players[c].kills = before[c].kills
                    /\ players[c].deaths = before[c].deaths
              /\ \A c \in Conns : FramesOf(c, "playerKill") = <<>>

\* a sender defeats another player's full-health record while a third
\* connection is open
C6_Witness ==
    \E t \in Targets :
        /\ t # last.conn
        /\ before[t].health > 0
        /\ players[t].health <= 0
        /\ players[last.conn].kills = 1
        /\ \E c \in Conns \ {t, last.conn} : IsOpen(c) /\ FramesOf(c, "playerKill") # <<>>

\* the fields a playerUpdate may assign
UpdatableFields == {"position", "rotation", "animation", "health", "name"}

\* the fields of a player record
RecordFields == UpdatableFields \cup {"id", "color", "maxHealth", "kills", "deaths"}

\* C7. Partial update preservation: handling a playerUpdate leaves every
\* field of the sender's record that the payload does not hold, and id,
\* maxHealth, kills and deaths in any case, at its prior stored value.
C7_PartialUpdatePreservation ==
    last.kind = "playerUpdate" =>
        /\ last.conn \in DOMAIN players
        /\ \A f \in RecordFields :
              (f \in UpdatableFields /\ Has(last.data, f))
                  \/ SameField(players[last.conn], before[last.conn], f)

\* a playerUpdate with only an animation, on a record whose position and
\* rotation an earlier message had changed
C7_Witness ==
    /\ last.kind = "playerUpdate"
    /\ DOMAIN last.data = {"animation"}
    /\ players[last.conn].animation = "jump"
    /\ Has(before[last.conn], "animation") /\ before[last.conn].animation = "run"
    /\ Has(players[last.conn], "position") /\ players[last.conn].position = P1
    /\ players[last.conn].rotation = 1

\* the handlers that end in broadcastToOthers
ToOthersKinds == {"position", "playerUpdate", "fireball"}

\* C8. Fanout exclusion: a frame broadcast to others is written exactly once
\* to every open connection other than the sender and never to the sender; a
\* frame broadcast to all (nameUpdate, the playerUpdate of a damage) is
\* written exactly once to every open connection, the origin included.
C8_FanoutExclusion ==
    /\ last.kind \in ToOthersKinds =>
          \A c \in Conns :
              /\ Len(sent[c]) = IF IsOpen(c) /\ c # last.conn THEN 1 ELSE 0
              /\ \A d \in Conns : sent[c] # <<>> /\ sent[d] # <<>> => sent[c] = sent[d]
    /\ (last.kind = "updateName" /\ last.data.id = before[last.conn].id) =>
          \A c \in Conns :
              /\ Len(sent[c]) = IF IsOpen(c) THEN 1 ELSE 0
              /\ sent[c] # <<>> => sent[c] = sent[last.conn]
    /\ Targets # {} =>
          \A c \in Conns :
              /\ Len(FramesOf(c, "playerUpdate")) = IF IsOpen(c) THEN 1 ELSE 0
              /\ sent[c] # <<>> => sent[c] = sent[last.conn]

\* a position relayed to an open connection while another one is closing
C8_Witness ==
    /\ last.kind = "position"
    /\ sent[last.conn] = <<>>
    /\ \E c, d \in Conns \ {last.conn} :
          /\ IsOpen(c) /\ Len(sent[c]) = 1
          /\ readyState[d] = "CLOSING" /\ sent[d] = <<>>

\* the ids of the connections that have closed
ClosedIds == {assigned[c] : c \in {d \in 1..Len(assigned) : readyState[d] = "CLOSED"}}

\* the ids in the rosters of the init frames just written
RosterIds ==
    UNION { { f.data.players[i].id : i \in 1..Len(f.data.players) } :
            f \in UNION { { FramesOf(c, "init")[j] : j \in 1..Len(FramesOf(c, "init")) } :
                          c \in Conns } }

\* C9. Disconnect cleanup: when connection A closes its record leaves the
\* registry, every other open connection is sent exactly one playerLeft with
\* A's id and the name A had on closing, A is sent nothing, and no init sent
\* afterwards lists A's id.
C9_DisconnectCleanup ==
    /\ (last.kind = "close" /\ last.conn \in DOMAIN before) =>
          LET A == last.conn IN
          /\ A \notin DOMAIN players
          /\ DOMAIN players = DOMAIN before \ {A}
          /\ sent[A] = <<>>
          /\ \A B \in Conns \ {A} :
                IsOpen(B) =>
                    sent[B] = << [type |-> "playerLeft",
                                  data |-> [id |-> before[A].id,
                                            name |-> before[A].name]] >>
    /\ RosterIds \cap ClosedIds = {}

\* a renamed player closes while another connection is open
C9_Witness ==
    /\ last.kind = "close"
    /\ last.conn \in DOMAIN before
    /\ before[last.conn].name = "neo"
    /\ \E B \in Conns : IsOpen(B) /\ sent[B] # <<>>

\* the record a new connection gets, spelled out
DefaultRecord(id) ==
    [id |-> id, color |-> PlayerColor,
     position |-> [x |-> 0, y |-> 0, z |-> 0], rotation |-> 0,
     animation |-> "idle", health |-> 100, maxHealth |-> 100,
     kills |-> 0, deaths |-> 0, name |-> "Player " \o ToString(id)]

\* C10. Handshake: accepting a connection creates a record with the
\* defaults; the new connection alone is sent init, with the new id and a
\* roster that is exactly the records registered at that moment, its own
\* included; every other open connection is sent playerJoined with the new
\* record, and the new connection is not.
C10_Handshake ==
    last.kind = "connection" =>
        LET ws     == last.conn
            newId  == assigned[ws]
            inits  == FramesOf(ws, "init")
            roster == inits[1].data.players
        IN /\ ws \notin DOMAIN before
           /\ DOMAIN players = DOMAIN before \cup {ws}
           /\ players[ws] = DefaultRecord(newId)
           /\ \A c \in DOMAIN before : players[c] = before[c]
           /\ Len(sent[ws]) = 1 /\ Len(inits) = 1
           /\ inits[1].data.id = newId
           /\ DOMAIN inits[1].data = {"id", "players"}
           /\ Len(roster) = Cardinality(DOMAIN players)
           /\ {roster[i] : i \in 1..Len(roster)} = {players[c] : c \in DOMAIN players}
           /\ \A c \in Conns \ {ws} :
                 /\ FramesOf(c, "init") = <<>>
                 /\ sent[c] = IF IsOpen(c)
                              THEN << [type |-> "playerJoined", data |-> players[ws]] >>
                              ELSE <<>>

\* a third connection is accepted while one is open and one, still
\* registered, is closing
C10_Witness ==
    /\ last.kind = "connection"
    /\ Cardinality(DOMAIN players) = 3
    /\ \E c, d \in Conns :
          /\ IsOpen(c) /\ sent[c] # <<>> /\ c # last.conn
          /\ readyState[d] = "CLOSING" /\ d \in DOMAIN players

\* the frames a relay of the last fireball would write: one frame with this
\* data to every open connection but the sender, none to anyone else
RelayedFireball(data) ==
    \A c \in Conns :
        sent[c] = IF IsOpen(c) /\ c # last.conn
                  THEN << [type |-> "fireball", data |-> data] >>
                  ELSE <<>>

FireballOptional == {"targetPoint", "speed", "damage"}

\* C12. Fireball passthrough: every optional field the inbound fireball
\* holds (targetPoint, speed, damage) is in the relayed frame with the same
\* value, and no player record changes.
C12_FireballPassthrough ==
    last.kind = "fireball" =>
        /\ players = before
        /\ \A c \in Conns : \A i \in 1..Len(sent[c]) : \A f \in FireballOptional :
              Has(last.data, f) =>
                  Has(sent[c][i].data, f) /\ sent[c][i].data[f] = last.data[f]

\* C13. Rename guard: an updateName whose data.id is the sender's own id sets
\* the sender's name to data.name, changes nothing else, and sends nameUpdate
\* {id, name} to every open connection, the sender included; an updateName
\* with any other id changes no record and sends nothing.
C13_RenameGuard ==
    last.kind = "updateName" =>
        LET s == last.conn IN
        IF last.data.id = before[s].id
        THEN /\ players = [before EXCEPT ![s].name = last.data.name]
             /\ \A c \in Conns :
                   sent[c] = IF IsOpen(c)
                             THEN << [type |-> "nameUpdate",
                                      data |-> [id |-> before[s].id,
                                                name |-> last.data.name]] >>
                             ELSE <<>>
        ELSE players = before /\ sent = NoFrames

\* an updateName that carries the id of another registered player
C13_Witness ==
    /\ last.kind = "updateName"
    /\ last.data.id # before[last.conn].id
    /\ \E c \in DOMAIN before : c # last.conn /\ before[c].id = last.data.id
    /\ \A c \in DOMAIN players : players[c].name # "neo"

\* C14. Unknown damage target: a damage message whose targetId is the id of
\* no registered record changes no record and sends nothing.
C14_UnknownTarget ==
    (IsDamage /\ Targets = {}) => players = before /\ sent = NoFrames

\* a damage message that names the id of a connection that has closed, with
\* two records still registered
C14_Witness ==
    /\ IsDamage
    /\ Targets = {}
    /\ last.data.targetId \in ClosedIds
    /\ Cardinality(DOMAIN players) = 2

\* C15. Non-fatal drop: a message that does not parse, or whose type is
\* outside the catalogue, changes no record and sends nothing; its sender
\* stays registered and open, and its next message can be handled.
C15_NonFatalDrop ==
    last.kind \in {"unknown", "malformed"} =>
        /\ players = before
        /\ sent = NoFrames
        /\ last.conn \in DOMAIN players
        /\ IsOpen(last.conn)
        /\ nMsgs < MaxMsgs => ENABLED Position(last.conn)

\* a dropped message from a registered sender while another connection is
\* open and a further message can still be handled
C15_Witness ==
    /\ last.kind = "malformed"
    /\ nMsgs < MaxMsgs
    /\ \E c \in Conns \ {last.conn} : IsOpen(c)

\* the last handler run was a defeat: a damage message that took its
\* target's health from above 0 to 0 or less
DefeatEvent == \E t \in Targets : before[t].health > 0 /\ players[t].health <= 0

\* C16. Kill/death counters: no record's kills or deaths ever decreases, a
\* counter changes only in a handler run that is a defeat, and position,
\* playerUpdate, updateName and fireball messages change none.
C16_CountersOnlyOnDefeat ==
    \A c \in DOMAIN before \cap DOMAIN players :
        /\ players[c].kills >= before[c].kills
        /\ players[c].deaths >= before[c].deaths
        /\ (players[c].kills # before[c].kills \/ players[c].deaths # before[c].deaths)
              => DefeatEvent

------------------------------------------------------------------------------
\* Claims about the client, checked under ClientSpec

\* the last client step handled a playerUpdate for the id it believed its own
SelfUpdate == clientLast.kind = "playerUpdate" /\ clientLast.data.id = playerIdWas

\* the last client step handled a playerUpdate for an untracked id that it
\* did not believe its own
UntrackedUpdate ==
    /\ clientLast.kind = "playerUpdate"
    /\ clientLast.data.id \notin DOMAIN playersRefWas
    /\ clientLast.data.id # playerIdWas

\* C17. Lazy remote creation: a playerUpdate for an id that has no tracked
\* record and is not localId leaves a tracked record for that id, whichever
\* fields the payload omits; an omitted health or maxHealth is 100, an
\* omitted animation is idle, an omitted name is "Player {id}".
C17_LazyCreation ==
    UntrackedUpdate =>
        LET data == clientLast.data IN
        /\ data.id \in DOMAIN playersRef
        /\ LET p == playersRef[data.id] IN
           /\ ~Has(data, "health") => p.health = MAX_PLAYER_HEALTH
           /\ ~Has(data, "maxHealth") => p.maxHealth = MAX_PLAYER_HEALTH
           /\ ~Has(data, "animation") => p.animation = "idle"
           /\ ~Has(data, "name") => p.name = PlayerName(data.id)

\* C18. Self-filter: handling a playerUpdate whose id equals localId creates
\* no record and changes no field of any record of the player map, whether or
\* not a record for localId is tracked.
C18_SelfFilter == SelfUpdate => playersRef = playersRefWas

\* C19. The emitter never carries health: every frame an emitter tick or an
\* animation frame sends has type position and a payload of exactly id,
\* position, rotation, animation and name, whatever the local record's health
\* is.
C19_EmitterPayload ==
    clientLast.kind \in {"emitterTick", "animate"} =>
        \A i \in 1..Len(outbox) :
            /\ outbox[i].type = "position"
            /\ DOMAIN outbox[i].data = {"id", "position", "rotation", "animation", "name"}

\* an emitter tick that sent a frame while the local record's health is 40
C19_Witness ==
    /\ clientLast.kind = "emitterTick"
    /\ Len(outbox) = 1
    /\ playerIdRef \in DOMAIN playersRef
    /\ playersRef[playerIdRef].health = 40

\* C20. Identity recovery never guesses: a step other than the handling of
\* init changes localId only when localId was set, has no tracked record, and
\* exactly one record is tracked, whose id it takes.
C20_NeverGuesses ==
    (playerIdRef # playerIdWas /\ clientLast.kind # "init") =>
        /\ playerIdWas # 0
        /\ playerIdWas \notin DOMAIN playersRef
        /\ DOMAIN playersRef = {playerIdRef}

\* the last client step found localId set, no record tracked under it, and
\* exactly one record tracked
SingleCandidate ==
    /\ playerIdWas # 0
    /\ playerIdWas \notin DOMAIN playersRefWas
    /\ Cardinality(DOMAIN playersRefWas) = 1

\* C21. Identity recovery adoption: whenever the periodic recovery check runs
\* with localId set, no record tracked under localId and exactly one record
\* tracked, localId becomes that record's id and then names a tracked record.
C21_RecoveryAdopts ==
    (clientLast.kind = "nameCheck" /\ SingleCandidate) =>
        /\ DOMAIN playersRefWas = {playerIdRef}
        /\ playerIdRef \in DOMAIN playersRef

\* C22. Client cleanup on close: once the transport has closed, localId is
\* unset and no record is tracked before any message of a later connection is
\* handled; so whenever a connection opens, the session state is empty.
C22_CleanupOnClose ==
    clientLast.kind = "open" => playerIdRef = 0 /\ playersRef = EmptyObj

\* C23. Tracked -> removed: handling playerLeft for an id that has a tracked
\* record leaves the id untracked, whether or not the record's model has
\* finished loading.
C23_PlayerLeftRemoves ==
    (clientLast.kind = "playerLeft" /\ clientLast.data.id \in DOMAIN playersRefWas) =>
        clientLast.data.id \notin DOMAIN playersRef

------------------------------------------------------------------------------
\* Claims checked under RespawnSpec

\* C24. Respawn re-arms defeat: a playerUpdate carrying health h sets the
\* sender's stored health to h, also when the record is at health 0; and a
\* damage message that takes a record that has died before (deaths >= 1) and
\* is above 0 again down to 0 or less adds exactly 1 to the killer's kills and
\* the victim's deaths and sends every open connection one playerKill.
C24_RespawnRearms ==
    /\ (last.kind = "playerUpdate" /\ last.conn \in DOMAIN before /\ Has(last.data, "health"))
          => players[last.conn].health = last.data.health
    /\ \A t \in Targets :
          LET s == last.conn IN
          (before[t].deaths >= 1 /\ before[t].health > 0 /\ players[t].health <= 0) =>
              /\ players[s].kills = before[s].kills + 1
              /\ players[t].deaths = before[t].deaths + 1
              /\ \A c \in Conns :
                    IsOpen(c) =>
                        FramesOf(c, "playerKill") =
                            << [type |-> "playerKill",
                                data |-> [killerId     |-> before[s].id,
                                          killerKills  |-> before[s].kills + 1,
                                          victimId     |-> before[t].id,
                                          victimDeaths |-> before[t].deaths + 1]] >>

\* connection 2, defeated in the initial state and back at full health by
\* its own playerUpdate, is defeated a second time by connection 1
C24_Witness ==
    /\ IsDamage
    /\ last.conn = 1
    /\ 2 \in Targets
    /\ before[2].deaths = 1
    /\ before[2].health = InitialHealth
    /\ players[2].health = 0
    /\ players[2].deaths = 2
    /\ players[1].kills = 2
    /\ FramesOf(2, "playerKill") # <<>>

\* C25. Client-initiated respawn reaches the server: when the local player
\* respawns after a defeat the client sends a playerUpdate that carries a
\* positive health.
C25_RespawnSendsHealth ==
    clientLast.kind = "respawn" =>
        \E i \in 1..Len(outbox) :
            /\ outbox[i].type = "playerUpdate"
            /\ Has(outbox[i].data, "health")
            /\ outbox[i].data.health > 0

------------------------------------------------------------------------------
\* Further claims about the server, checked under Spec

\* the kinds of event that are inbound messages
MessageKinds ==
    {"updateName", "position", "playerUpdate", "directDamage", "damagePlayer",
     "fireball", "unknown", "malformed"}

\* C26. Damage amount: a damage message without a damage field lowers the
\* target's health by exactly 10, and one with a damage field d >= 0, d = 0
\* included, lowers it by exactly d, both clamped at 0.
C26_DamageAmount ==
    \A t \in Targets :
        LET d == IF Has(last.data, "damage") THEN last.data.damage ELSE 10
        IN d >= 0 => players[t].health = Max(0, before[t].health - d)

\* C27. Damage broadcast: a damage message with a resolvable target sends
\* every open connection, sender and target included, exactly one playerUpdate
\* that carries the target's record with the health after the damage, as the
\* first frame of the event and so before its playerKill; a connection that is
\* not open gets nothing.
C27_DamageBroadcast ==
    \A t \in Targets :
        LET update == [type |-> "playerUpdate",
                       data |-> [before[t] EXCEPT !.health = players[t].health]]
        IN \A c \in Conns :
              IF IsOpen(c)
              THEN /\ FramesOf(c, "playerUpdate") = << update >>
                   /\ sent[c][1] = update
                   /\ Len(sent[c]) = 1 + Len(FramesOf(c, "playerKill"))
              ELSE sent[c] = <<>>

\* a damage that defeats another open connection's record while a third
\* connection is open: each of the three gets the playerUpdate and then the
\* playerKill
C27_Witness ==
    \E t \in Targets :
        /\ t # last.conn
        /\ IsOpen(t)
        /\ \E c \in Conns \ {t, last.conn} : IsOpen(c)
        /\ \A c \in Conns :
              IsOpen(c) => /\ Len(sent[c]) = 2
                           /\ sent[c][1].type = "playerUpdate"
                           /\ sent[c][1].data.health = 0
                           /\ sent[c][2].type = "playerKill"

\* C28. Record ownership: handling a message of connection A changes no
\* field of another connection's record other than health and deaths, and
\* changes those only when the message is a damage message that names the
\* record as its target; it neither removes nor adds a record.
C28_RecordOwnership ==
    last.kind \in MessageKinds =>
        /\ DOMAIN players = DOMAIN before
        /\ \A c \in DOMAIN before \ {last.conn} :
              /\ \A f \in RecordFields \ {"health", "deaths"} :
                    SameField(before[c], players[c], f)
              /\ c \notin Targets =>
                    /\ SameField(before[c], players[c], "health")
                    /\ SameField(before[c], players[c], "deaths")

\* a damage message of one connection that changes health and deaths of
\* another connection's record, with a renamed third record left as it was
C28_Witness ==
    \E t \in Targets :
        /\ t # last.conn
        /\ players[t].health < before[t].health
        /\ players[t].deaths = before[t].deaths + 1
        /\ \E c \in DOMAIN players \ {t, last.conn} : players[c].name = "neo"

\* C29. Movement relay: a position or playerUpdate message of a registered
\* connection sends exactly one playerUpdate, carrying the sender's record as
\* stored after the message, to every other open connection and nothing to
\* the sender; after a position message the stored health, and so the relayed
\* one, is the health stored before and not the payload's.
C29_MovementRelay ==
    (last.kind \in {"position", "playerUpdate"} /\ last.conn \in DOMAIN before) =>
        /\ \A c \in Conns :
              sent[c] = IF IsOpen(c) /\ c # last.conn
                        THEN << [type |-> "playerUpdate", data |-> players[last.conn]] >>
                        ELSE <<>>
        /\ last.kind = "position" => players[last.conn].health = before[last.conn].health

\* a position message whose payload carries health 5 is relayed to two open
\* connections with the stored health
C29_Witness ==
    /\ last.kind = "position"
    /\ Has(last.data, "health")
    /\ last.data.health # before[last.conn].health
    /\ sent[last.conn] = <<>>
    /\ Cardinality({c \in Conns \ {last.conn} :
                      /\ IsOpen(c)
                      /\ Len(sent[c]) = 1
                      /\ sent[c][1].data.health = InitialHealth}) = 2

\* the events whose handler broadcasts to every open connection
BroadcastsToAll ==
    \/ last.kind = "updateName" /\ last.data.id = before[last.conn].id
    \/ Targets # {}
    \/ last.kind = "close" /\ last.conn \in DOMAIN before

\* the events whose handler broadcasts to every open connection but the origin
BroadcastsToOthers ==
    \/ last.kind \in ToOthersKinds /\ last.conn \in DOMAIN before
    \/ last.kind = "connection"

\* C30. Closed connections are skipped: in every broadcast a connection that
\* is not open receives nothing, and every open recipient still receives the
\* message, whichever other connections are closing or closed.
C30_ClosedSkipped ==
    /\ \A c \in Conns : ~IsOpen(c) => sent[c] = <<>>
    /\ BroadcastsToAll => \A c \in Conns : IsOpen(c) => sent[c] # <<>>
    /\ BroadcastsToOthers =>
          \A c \in Conns \ {last.conn} : IsOpen(c) => sent[c] # <<>>

\* a broadcast to all while connection 1 is closing: connection 1 receives
\* nothing and two open connections receive the frame
C30_Witness ==
    /\ BroadcastsToAll
    /\ readyState[1] = "CLOSING"
    /\ sent[1] = <<>>
    /\ Cardinality({c \in Conns : IsOpen(c) /\ sent[c] # <<>>}) = 2

------------------------------------------------------------------------------
\* Further claims about the client, checked under ClientSpec

\* the last client step handled a playerUpdate for a tracked id that it did
\* not believe its own
TrackedUpdate ==
    /\ clientLast.kind = "playerUpdate"
    /\ clientLast.data.id \in DOMAIN playersRefWas
    /\ clientLast.data.id # playerIdWas

\* the fields of a tracked record that a playerUpdate merges
MergedFields == {"position", "rotation", "animation", "health", "name", "kills", "deaths"}

\* C31. Client merge: handling a playerUpdate for a tracked remote id gives
\* every field of position, rotation, animation, health, name, kills and
\* deaths that the payload holds the payload's value and leaves every one it
\* does not hold at its prior value, whether or not the record's model is
\* loaded.
C31_ClientMerge ==
    TrackedUpdate =>
        LET data == clientLast.data
            id   == clientLast.data.id
        IN /\ id \in DOMAIN playersRef
           /\ \A f \in MergedFields :
                 IF Has(data, f)
                 THEN Has(playersRef[id], f) /\ playersRef[id][f] = data[f]
                 ELSE SameField(playersRefWas[id], playersRef[id], f)

\* C32. Lazy seeding: the record a playerUpdate for an untracked id creates
\* has, for every field the payload holds, the payload's value; a payload
\* with health 0 gives a record with health 0.
C32_LazySeeding ==
    (UntrackedUpdate /\ clientLast.data.id \in DOMAIN playersRef) =>
        \A f \in MergedFields \cup {"maxHealth"} :
            Has(clientLast.data, f) =>
                /\ Has(playersRef[clientLast.data.id], f)
                /\ playersRef[clientLast.data.id][f] = clientLast.data[f]

\* a frame of type position is among the frames the last client step sent
SentPosition == \E i \in 1..Len(outbox) : outbox[i].type = "position"

MissedPlayerUpdate ==
    /\ UntrackedUpdate
    /\ playerIdWas # 0
    /\ playerIdWas \in DOMAIN playersRefWas

\* C34. Self-healing of a missing avatar: once a connected client that tracks
\* no record of a live remote player P has handled the playerUpdate the server
\* relays for a position message of P, it tracks P with the relayed position,
\* animation, health and name.
C34_SelfHealing ==
    MissedPlayerUpdate =>
        /\ clientLast.data.id \in DOMAIN playersRef
        /\ \A f \in {"position", "animation", "health", "name"} :
              Has(clientLast.data, f) =>
                  /\ Has(playersRef[clientLast.data.id], f)
                  /\ playersRef[clientLast.data.id][f] = clientLast.data[f]

------------------------------------------------------------------------------
\* Claims about the order and the content of what the server sends, checked
\* under Spec

\* C35. Init comes first and once: a socket is sent init only by the handler
\* that accepts it, once and as the first frame that handler writes to it;
\* each socket is accepted once, and a socket that has not been accepted is
\* sent nothing.
C35_InitFirst ==
    /\ \A c \in Conns :
          /\ sent[c] # <<>> => c <= Len(assigned)
          /\ FramesOf(c, "init") # <<>> => last.kind = "connection" /\ last.conn = c
    /\ last.kind = "connection" =>
          /\ last.conn = Len(assigned)
          /\ last.conn \notin DOMAIN before
          /\ sent[last.conn] # <<>>
          /\ sent[last.conn][1].type = "init"
          /\ Len(FramesOf(last.conn, "init")) = 1

\* the second socket is accepted: it is sent init and nothing before it,
\* while the first, which got its init earlier, is sent playerJoined
C35_Witness ==
    /\ last.kind = "connection"
    /\ last.conn = 2
    /\ Len(sent[2]) = 1
    /\ sent[2][1].type = "init"
    /\ Len(sent[1]) = 1
    /\ sent[1][1].type = "playerJoined"

\* the player ids a frame names
Referenced(f) ==
    IF f.type = "init"
    THEN {f.data.id} \cup {f.data.players[i].id : i \in 1..Len(f.data.players)}
    ELSE IF f.type = "playerKill" THEN {f.data.killerId, f.data.victimId}
    ELSE IF f.type = "fireball" THEN {f.data.playerId}
    ELSE IF Has(f.data, "id") THEN {f.data.id}
    ELSE {}

\* C36. No message about a departed player: a frame that names the id of a
\* socket whose close handler has run is the playerLeft of that very close;
\* no later playerUpdate, playerKill, nameUpdate, fireball, playerJoined,
\* playerLeft or init roster names it.
C36_NoDepartedReference ==
    \A c \in Conns : \A i \in 1..Len(sent[c]) :
        \A x \in Referenced(sent[c][i]) \cap ClosedIds :
            /\ sent[c][i].type = "playerLeft"
            /\ last.kind = "close"
            /\ assigned[last.conn] = x

\* after player 1 has left, a damage message of another connection names id
\* 1 as its target: nothing is sent
C36_Witness ==
    /\ IsDamage
    /\ last.data.targetId \in ClosedIds
    /\ last.conn \in DOMAIN players
    /\ \A c \in Conns : sent[c] = <<>>

\* C37. Consistent defeat messages: when a damage event writes a playerKill,
\* the playerUpdate of the same event carries, for the victim, the deaths the
\* playerKill reports, and, when the victim is also the killer, the kills the
\* playerKill reports.
C37_ConsistentDefeat ==
    \A c \in Conns :
        \A i \in 1..Len(FramesOf(c, "playerKill")), j \in 1..Len(FramesOf(c, "playerUpdate")) :
            LET kill   == FramesOf(c, "playerKill")[i].data
                update == FramesOf(c, "playerUpdate")[j].data
            IN /\ update.id = kill.victimId => update.deaths = kill.victimDeaths
               /\ update.id = kill.killerId => update.kills = kill.killerKills

\* the sum of a counter over the records of the sockets in S
RECURSIVE SumOf(_, _, _)
SumOf(map, f, S) ==
    IF S = {} THEN 0
    ELSE LET c == CHOOSE d \in S : TRUE
         IN map[c][f] + SumOf(map, f, S \ {c})

\* the registered sockets whose counter f the last handler run changed
Changed(f) == {c \in DOMAIN before \cap DOMAIN players : players[c][f] # before[c][f]}

\* C38. Kills balance deaths: a handler run that changes a counter adds 1 to
\* the kills of exactly one record and 1 to the deaths of exactly one record,
\* the sender's own when it damages itself; while no close handler has run,
\* the kills of all records and their deaths add up to the same number.
C38_KillsBalanceDeaths ==
    /\ (Changed("kills") # {} \/ Changed("deaths") # {}) =>
          /\ \E s \in DOMAIN before :
                Changed("kills") = {s} /\ players[s].kills = before[s].kills + 1
          /\ \E t \in DOMAIN before :
                Changed("deaths") = {t} /\ players[t].deaths = before[t].deaths + 1
    /\ ClosedIds = {} =>
          SumOf(players, "kills", DOMAIN players) = SumOf(players, "deaths", DOMAIN players)

\* a sender defeats its own record after it defeated another's: its kills
\* are 2, and the two deaths are spread over two records
C38_Witness ==
    /\ ClosedIds = {}
    /\ last.conn \in Targets
    /\ players[last.conn].kills = 2
    /\ players[last.conn].deaths = 1
    /\ SumOf(players, "deaths", DOMAIN players) = 2

\* C39. Records stay well-formed: every registered record has a position, a
\* rotation and an animation, and so has every record in an init roster and
\* in a relayed playerUpdate.
C39_WellFormedRecords ==
    /\ \A c \in DOMAIN players :
          {"position", "rotation", "animation"} \subseteq DOMAIN players[c]
    /\ \A c \in Conns : \A i \in 1..Len(sent[c]) :
          /\ sent[c][i].type = "playerUpdate" => Has(sent[c][i].data, "position")
          /\ sent[c][i].type = "init" =>
                \A j \in 1..Len(sent[c][i].data.players) :
                    Has(sent[c][i].data.players[j], "position")

\* C40. Local identity agrees with the server: from the handling of the init
\* of the current socket until that socket closes, playerIdRef is the id that
\* init carried, whatever frames and timer ticks the client handles in
\* between.
C40_LocalIdentity == assignedId # 0 => playerIdRef = assignedId

\* the name check timer ticks in a client whose init gave it id 1 and that
\* tracks player 2
C40_Witness ==
    /\ assignedId = 1
    /\ playerIdRef = 1
    /\ 2 \in DOMAIN playersRef
    /\ clientLast.kind = "nameCheck"

====
